---- MODULE Spec2Model ----
(***************************************************************************)
(* Model of the VAPI -> Square Appointments webhook connector.             *)
(*                                                                         *)
(* The repository holds three versions of the same handler:                *)
(*   "A"  src/unnamed/part_000            module.exports = async (req,res) *)
(*   "B"  src/api/index.js lines 1-164    app.post('/')                    *)
(*   "C"  src/api/index.js lines 166-317  app.post('/api/index.js')        *)
(* One behaviour of the model runs one of them (variant), chosen in Init.  *)
(*                                                                         *)
(* A JavaScript string that the code inspects character by character (an   *)
(* error message, a result string, a phone number) is a sequence of        *)
(* tokens: a token is one character or one fixed piece of text.  JSON      *)
(* values the code only tests for truthiness are single tokens.            *)
(***************************************************************************)
EXTENDS Naturals, Sequences, FiniteSets, TLC

VARIABLES
    variant,      \* which version of the handler is deployed
    tokenSet,     \* TOKEN is a non-empty string
    served,       \* requests received so far by this process
    pc,           \* position of the handler of the current request
    req,          \* the inbound request (method and parsed body)
    customer_id,  \* the handler's local variable customer_id
    calls,        \* upstream calls issued for the current request, in order
    responses,    \* responses sent with res for the current request
    escaped,      \* an exception left the handler
    fullNameArg,  \* createCustomer on its own: its argument fullName
    submitted,    \* createCustomer on its own: the names of the body it builds
    procs,        \* overlapping requests: the state of each invocation of the handler
    store,        \* overlapping requests: the customers the provider holds
    booked,       \* overlapping requests: booking calls the provider has answered
    now           \* overlapping requests: the last value Date.now() returned

\* The state of createCustomer taken on its own.
nameVars == <<fullNameArg, submitted>>

\* The state of several invocations running against one provider.
multiVars == <<procs, store, booked, now>>

vars == <<variant, tokenSet, served, pc, req, customer_id, calls, responses, escaped, nameVars,
          multiVars>>

\* ---------------------------------------------------------------- bounds
\* Requests one process handles in a behaviour, one after the other.
MaxRequests == 1

\* ---------------------------------------------------------------- JS values
Undefined == "undefined"      \* the value of a missing property
Null == "null"
NonString == "42"             \* a truthy JSON value that is not a string (a number)

\* !v is false
Truthy(v) == v \notin {Undefined, Null, ""}

\* typeof v === 'string'
IsString(v) == v \notin {Undefined, Null, NonString}

FUNCTION_NAME == "schedule_square_appointment"
SENTINEL == "test-error"

HTTP_OK == 200
HTTP_METHOD_NOT_ALLOWED == 405

\* ---------------------------------------------------------------- inbound requests
\* customer_phone: a string (its characters), or missing, or a JSON number
PhoneValues ==
    { [kind |-> "undefined", chars |-> <<>>],
      [kind |-> "number", chars |-> <<>>],
      [kind |-> "string", chars |-> <<"+", "1", " ", "5", "-", "5">>] }

\* The parsed bodies of the requests.  hasBody = FALSE is a request without a
\* body, hasArgs = FALSE a body without args: what the handler destructures
\* from them is undefined.
Bodies ==
    [ hasBody : {TRUE}, hasArgs : {TRUE},
      functionName : {Undefined, FUNCTION_NAME, "other_function"},
      toolCallId : {Undefined, "abc"},
      customer_name : {Undefined, "", "Jane Doe", NonString},
      customer_phone : PhoneValues,
      start_time : {"2025-01-01T10:00:00Z"},
      service_name : {Undefined, "", "Haircut"} ]
    \cup
    [ hasBody : {TRUE, FALSE}, hasArgs : {FALSE},
      functionName : {Undefined, FUNCTION_NAME},
      toolCallId : {Undefined, "abc"},
      customer_name : {Undefined},
      customer_phone : {[kind |-> "undefined", chars |-> <<>>]},
      start_time : {Undefined},
      service_name : {Undefined} ]

\* Express routes only POST requests to app.post; the serverless function
\* of variant A receives every method.
Methods(v) == IF v = "A" THEN {"POST", "GET"} ELSE {"POST"}

NoRequest ==
    [ method |-> "none", hasBody |-> FALSE, hasArgs |-> FALSE,
      functionName |-> Undefined, toolCallId |-> Undefined,
      customer_name |-> Undefined,
      customer_phone |-> [kind |-> "undefined", chars |-> <<>>],
      start_time |-> Undefined, service_name |-> Undefined ]

\* const vapiPayload = req.body || {}; const { functionName, args, toolCallId } = vapiPayload;
\* const { customer_name, ... } = args || {};
Field(r, f) ==
    IF ~r.hasBody THEN Undefined
    ELSE IF f \in {"functionName", "toolCallId"} THEN r[f]
    ELSE IF ~r.hasArgs THEN Undefined
    ELSE r[f]

PhoneOf(r) ==
    IF r.hasBody /\ r.hasArgs THEN r.customer_phone
    ELSE [kind |-> "undefined", chars |-> <<>>]

\* ---------------------------------------------------------------- provider responses
\* The HTTP statuses the provider answers with; response.ok is 200..299.
UpstreamStatuses == {200, 400}
ResponseOk(status) == status >= 200 /\ status <= 299

StatusText(status) == IF status = 200 THEN "200" ELSE "400"

\* The detail texts of the provider's errors, character by character.
Details == { <<"d">>, <<"d", "\r", "\n", "\n", "e">> }

\* data.errors: missing, an empty list, a list whose first entry has no
\* detail, or a list whose first entry has a detail
ErrorsFields ==
    { [kind |-> k, detail |-> <<>>] : k \in {"absent", "empty", "nodetail"} }
    \cup { [kind |-> "detail", detail |-> d] : d \in Details }

\* data.customers of a search: missing, [], or a list whose first entry has
\* an id or has none
SearchPayloads ==
    { [kind |-> "absent", id |-> Undefined],
      [kind |-> "empty", id |-> Undefined],
      [kind |-> "object", id |-> Undefined],
      [kind |-> "object", id |-> "CUST_FOUND"] }

\* data.customer of a create: missing, or an object with or without an id
CreatePayloads ==
    { [kind |-> "absent", id |-> Undefined],
      [kind |-> "object", id |-> Undefined],
      [kind |-> "object", id |-> "CUST_NEW"] }

\* data.booking of a booking: missing, or an object with or without an id
BookingPayloads ==
    { [kind |-> "absent", id |-> Undefined],
      [kind |-> "object", id |-> Undefined],
      [kind |-> "object", id |-> "BOOK1"] }

NoErrors == [kind |-> "absent", detail |-> <<>>]
NoPayload == [kind |-> "absent", id |-> Undefined]

\* What one upstream call comes back with: fetch rejects, response.json()
\* rejects, or a status and a parsed JSON object.
Outcomes(payloads) ==
    { [outcome |-> "fetch_throws", status |-> 0, errors |-> NoErrors, payload |-> NoPayload] }
    \cup { [outcome |-> "json_throws", status |-> s, errors |-> NoErrors, payload |-> NoPayload] :
             s \in UpstreamStatuses }
    \cup [ outcome : {"body"}, status : UpstreamStatuses, errors : ErrorsFields, payload : payloads ]

Pending == [outcome |-> "pending", status |-> 0, errors |-> NoErrors, payload |-> NoPayload]

\* ---------------------------------------------------------------- strings
IsLineBreak(c) == c \in {"\r", "\n"}

\* message.replace(/[\r\n]+/g, ' '): every maximal run of CR/LF becomes one space
RECURSIVE ReplaceLineBreaks(_)
ReplaceLineBreaks(s) ==
    IF s = <<>> THEN <<>>
    ELSE IF IsLineBreak(Head(s))
         THEN IF Len(s) > 1 /\ IsLineBreak(s[2])
              THEN ReplaceLineBreaks(Tail(s))
              ELSE <<" ">> \o ReplaceLineBreaks(Tail(s))
         ELSE <<Head(s)>> \o ReplaceLineBreaks(Tail(s))

\* phone.replace(/[^0-9+]/g, ''): keeps the digits and the plus signs
IsPhoneChar(c) == c \in {"0", "1", "2", "3", "4", "5", "6", "7", "8", "9", "+"}
CleanPhone(chars) == SelectSeq(chars, IsPhoneChar)

\* s.includes(t)
Contains(s, t) ==
    \E i \in 0..(Len(s) - Len(t)) : \A j \in 1..Len(t) : s[i + j] = t[j]

\* `${v}` of an id: a missing id prints as the text undefined
TemplateText(v) == v

\* ---------------------------------------------------------------- messages
CONFIG_ERROR ==
    <<"Configuration Error: Missing required booking data (name or service) or invalid function name.">>
NO_CUSTOMER_ID == <<"Failed to secure customer ID for booking.">>
NO_BOOKING_OBJECT ==
    <<"Square accepted request but returned no booking object (e.g., time slot unavailable).">>
UNKNOWN_API_ERROR == <<"Unknown API Error.">>

SearchHttpError(status) == <<"Search Customer HTTP Error ", StatusText(status), " from Square.">>
CreateHttpError(status) == <<"Create Customer HTTP Error ", StatusText(status), " from Square.">>
BookingHttpError(v, status) ==
    IF v = "C" THEN <<"HTTP Error ", StatusText(status), " from Square.">>
    ELSE <<"Booking HTTP Error ", StatusText(status), " from Square.">>

\* The messages of the exceptions the runtime raises.
FETCH_FAILED == <<"fetch failed">>
JSON_SYNTAX_ERROR == <<"Unexpected token < in JSON at position 0">>
TYPE_ERROR_DETAIL == <<"Cannot read properties of undefined (reading 'detail')">>
TYPE_ERROR_REPLACE_UNDEFINED == <<"Cannot read properties of undefined (reading 'replace')">>
TYPE_ERROR_REPLACE == <<"phone.replace is not a function">>
TYPE_ERROR_SPLIT == <<"fullName.split is not a function">>

\* A helper's result: it returned value, or it threw an error with message.
Returned(v) == [threw |-> FALSE, message |-> <<>>, value |-> v]
Threw(m) == [threw |-> TRUE, message |-> m, value |-> Undefined]

\* throw new Error(data.errors ? data.errors[0].detail : fallback)
\* errors = [] is truthy and errors[0].detail a TypeError; new Error(undefined)
\* has the empty message.
ThrowProviderError(errors, fallback) ==
    CASE errors.kind = "absent" -> Threw(fallback)
      [] errors.kind = "empty" -> Threw(TYPE_ERROR_DETAIL)
      [] errors.kind = "nodetail" -> Threw(<<>>)
      [] errors.kind = "detail" -> Threw(errors.detail)

\* ---------------------------------------------------------------- helper functions
\* Version C does not test response.ok in searchCustomer and createCustomer.
ChecksCustomerStatus(v) == v \in {"A", "B"}

\* searchCustomer up to its fetch: version A calls phone.replace, a TypeError
\* unless phone is a string.
SearchBeforeFetch(v, phone) ==
    IF v = "A" /\ phone.kind = "undefined" THEN Threw(TYPE_ERROR_REPLACE_UNDEFINED)
    ELSE IF v = "A" /\ phone.kind = "number" THEN Threw(TYPE_ERROR_REPLACE)
    ELSE Returned(Undefined)

\* The phone_number.exact filter searchCustomer submits.
SearchFilter(v, phone) == IF v = "A" THEN CleanPhone(phone.chars) ELSE phone.chars

\* searchCustomer from the response of its fetch on.
SearchCustomerResult(v, r) ==
    IF r.outcome = "fetch_throws" THEN Threw(FETCH_FAILED)
    ELSE IF r.outcome = "json_throws" THEN Threw(JSON_SYNTAX_ERROR)
    ELSE IF ChecksCustomerStatus(v) /\ ~ResponseOk(r.status)
         THEN ThrowProviderError(r.errors, SearchHttpError(r.status))
    ELSE IF r.payload.kind = "object" THEN Returned(r.payload.id)
    ELSE Returned(Null)

\* createCustomer up to its fetch: fullName.split is a TypeError unless
\* fullName is a string.
CreateBeforeFetch(fullName) ==
    IF IsString(fullName) THEN Returned(Undefined) ELSE Threw(TYPE_ERROR_SPLIT)

\* createCustomer from the response of its fetch on.
CreateCustomerResult(v, r) ==
    IF r.outcome = "fetch_throws" THEN Threw(FETCH_FAILED)
    ELSE IF r.outcome = "json_throws" THEN Threw(JSON_SYNTAX_ERROR)
    ELSE IF ChecksCustomerStatus(v) /\ ~ResponseOk(r.status)
         THEN ThrowProviderError(r.errors, CreateHttpError(r.status))
    ELSE IF r.payload.kind = "object" THEN Returned(r.payload.id)
    ELSE Returned(Null)

\* createSquareBooking from the response of its fetch on.
CreateSquareBookingResult(v, r) ==
    IF r.outcome = "fetch_throws" THEN Threw(FETCH_FAILED)
    ELSE IF r.outcome = "json_throws" THEN Threw(JSON_SYNTAX_ERROR)
    ELSE IF ~ResponseOk(r.status)
         THEN ThrowProviderError(r.errors, BookingHttpError(v, r.status))
    ELSE IF r.payload.kind # "object"
         THEN ThrowProviderError(r.errors, NO_BOOKING_OBJECT)
    ELSE Returned(r.payload.id)

\* ---------------------------------------------------------------- the handler
\* The validation without its test of service_name.
Rejected_NoServiceCheck(r, hasToken) ==
    \/ Field(r, "functionName") # FUNCTION_NAME
    \/ ~Truthy(Field(r, "customer_name"))
    \/ ~hasToken

\* The input validation: TRUE when the request is rejected.
Rejected(r, hasToken) ==
    \/ Field(r, "functionName") # FUNCTION_NAME
    \/ ~Truthy(Field(r, "customer_name"))
    \/ ~Truthy(Field(r, "service_name"))
    \/ ~hasToken

\* toolCallId || 'test-error'
RejectionToolCallId(r) ==
    IF Truthy(Field(r, "toolCallId")) THEN Field(r, "toolCallId") ELSE SENTINEL

\* toolCallId: toolCallId of the success and of the failure envelope
EnvelopeToolCallId(r) == Field(r, "toolCallId")

\* The handler creating a customer whatever the search returned.
NeedsCreate_Always(id) == TRUE

\* The handler never creating a customer.
NeedsCreate_Never(id) == FALSE

\* if (!customer_id) customer_id = await createCustomer(...)
NeedsCreate(id) == ~Truthy(id)

\* The handler without its test of customer_id before the booking.
NoCustomerId_Never(id) == FALSE

\* if (!customer_id) throw new Error("Failed to secure customer ID for booking.")
NoCustomerId(id) == ~Truthy(id)

SuccessResult(v, r, bookingId) ==
    IF v = "C"
    THEN <<"Great! I've confirmed your appointment. Your booking ID is ", TemplateText(bookingId),
           ". The service is ", TemplateText(Field(r, "service_name")),
           " at ", TemplateText(Field(r, "start_time")), ".">>
    ELSE <<"Booking success. ID: ", TemplateText(bookingId), ".">>

\* The result of the catch block for an error with this message.
FailureResult(v, message) ==
    IF v = "C"
    THEN <<"I encountered a system error and could not finalize the booking. Failure Detail: ">>
         \o message
    ELSE <<"Booking failed. Failure Detail: ">>
         \o (IF message # <<>> THEN ReplaceLineBreaks(message) ELSE UNKNOWN_API_ERROR)

\* The search placed before the try block.
InTryBlock_SearchOutside(step) == step \in {"create", "customer", "booking"}

\* The steps of the handler that run inside its try block.
InTryBlock(step) == step \in {"search", "create", "customer", "booking"}

Envelope(tc, result) ==
    [status |-> HTTP_OK, text |-> "", results |-> <<[toolCallId |-> tc, result |-> result]>>]

\* The method check answering with status 200.
PlainText_AsOk(status, text) == [status |-> HTTP_OK, text |-> text, results |-> <<>>]

PlainText(status, text) == [status |-> status, text |-> text, results |-> <<>>]

Call(api, filter, name, cid) ==
    [api |-> api, filter |-> filter, name |-> name, customer_id |-> cid, resp |-> Pending]

\* The last call of cs answered with r.
Answered(cs, r) == [cs EXCEPT ![Len(cs)].resp = r]

\* The requests version v can be handed.
Requests(v) ==
    { [method |-> m] @@ b : m \in Methods(v), b \in Bodies }

\* An error with this message is thrown at this step, cs being the calls made
\* so far: the catch block answers it when the step is inside the try block.
Throw(step, message, cs) ==
    /\ pc' = "done"
    /\ calls' = cs
    /\ IF InTryBlock(step)
       THEN /\ responses' = Append(responses,
                   Envelope(EnvelopeToolCallId(req), FailureResult(variant, message)))
            /\ escaped' = escaped
       ELSE /\ responses' = responses
            /\ escaped' = TRUE

\* const bookingId = await createSquareBooking(customer_id, start_time, TOKEN): up to the fetch
BookingCall(id, cs) ==
    /\ calls' = Append(cs, Call("booking", <<>>, Undefined, id))
    /\ pc' = "await_booking"
    /\ UNCHANGED <<responses, escaped>>

\* customer_id is settled: the handler throws without one, else books
AfterCustomer(id, cs) ==
    /\ customer_id' = id
    /\ IF NoCustomerId(id)
       THEN Throw("customer", NO_CUSTOMER_ID, cs)
       ELSE BookingCall(id, cs)

\* customer_id = await createCustomer(customer_name, customer_phone, TOKEN): up to the fetch
CreateCall(cs) ==
    LET pre == CreateBeforeFetch(Field(req, "customer_name")) IN
    IF pre.threw
    THEN Throw("create", pre.message, cs)
    ELSE /\ calls' = Append(cs, Call("create", PhoneOf(req).chars,
                                     Field(req, "customer_name"), Undefined))
         /\ pc' = "await_create"
         /\ UNCHANGED <<responses, escaped>>

\* ---------------------------------------------------------------- actions
\* Nothing runs beside the one request.
NoOverlap ==
    /\ procs = <<>>
    /\ store = <<>>
    /\ booked = 0
    /\ now = 0

Init ==
    /\ variant \in {"A", "B", "C"}
    /\ tokenSet \in (IF variant = "A" THEN {TRUE} ELSE BOOLEAN)
    /\ served = 0
    /\ pc = "idle"
    /\ req = NoRequest
    /\ customer_id = Undefined
    /\ calls = <<>>
    /\ responses = <<>>
    /\ escaped = FALSE
    /\ fullNameArg = <<>>
    /\ submitted = <<>>
    /\ NoOverlap

\* The runtime hands the next request to the handler.
Receive ==
    /\ pc \in {"idle", "done"}
    /\ served < MaxRequests
    /\ \E r \in Requests(variant) : req' = r
    /\ served' = served + 1
    /\ pc' = "start"
    /\ customer_id' = Undefined
    /\ calls' = <<>>
    /\ responses' = <<>>
    /\ escaped' = FALSE
    /\ UNCHANGED <<variant, tokenSet>>
    /\ UNCHANGED <<nameVars, multiVars>>

\* if (req.method !== 'POST') return res.status(405).send('Method Not Allowed');
MethodNotAllowed ==
    /\ pc = "start"
    /\ variant = "A"
    /\ req.method # "POST"
    /\ responses' = Append(responses, PlainText(HTTP_METHOD_NOT_ALLOWED, "Method Not Allowed"))
    /\ pc' = "done"
    /\ UNCHANGED <<variant, tokenSet, served, req, customer_id, calls, escaped>>
    /\ UNCHANGED <<nameVars, multiVars>>

\* The input validation rejects the request.
RejectInvalid ==
    /\ pc = "start"
    /\ variant = "A" => req.method = "POST"
    /\ Rejected(req, tokenSet)
    /\ responses' = Append(responses, Envelope(RejectionToolCallId(req), CONFIG_ERROR))
    /\ pc' = "done"
    /\ UNCHANGED <<variant, tokenSet, served, req, customer_id, calls, escaped>>
    /\ UNCHANGED <<nameVars, multiVars>>

\* let customer_id = await searchCustomer(customer_phone, TOKEN): up to the fetch
BeginSearch ==
    /\ pc = "start"
    /\ variant = "A" => req.method = "POST"
    /\ ~Rejected(req, tokenSet)
    /\ LET pre == SearchBeforeFetch(variant, PhoneOf(req)) IN
       IF pre.threw
       THEN Throw("search", pre.message, calls)
       ELSE /\ calls' = Append(calls, Call("search", SearchFilter(variant, PhoneOf(req)),
                                           Undefined, Undefined))
            /\ pc' = "await_search"
            /\ UNCHANGED <<responses, escaped>>
    /\ UNCHANGED <<variant, tokenSet, served, req, customer_id>>
    /\ UNCHANGED <<nameVars, multiVars>>

\* The search answers; the handler runs on to its next await or to its response.
SearchCustomerReturn ==
    /\ pc = "await_search"
    /\ \E r \in Outcomes(SearchPayloads) :
         LET cs == Answered(calls, r)
             res == SearchCustomerResult(variant, r) IN
         IF res.threw
         THEN /\ customer_id' = customer_id
              /\ Throw("search", res.message, cs)
         ELSE IF NeedsCreate(res.value)
         THEN /\ customer_id' = res.value
              /\ CreateCall(cs)
         ELSE AfterCustomer(res.value, cs)
    /\ UNCHANGED <<variant, tokenSet, served, req>>
    /\ UNCHANGED <<nameVars, multiVars>>

\* The create answers.
CreateCustomerReturn ==
    /\ pc = "await_create"
    /\ \E r \in Outcomes(CreatePayloads) :
         LET cs == Answered(calls, r)
             res == CreateCustomerResult(variant, r) IN
         IF res.threw
         THEN /\ customer_id' = customer_id
              /\ Throw("create", res.message, cs)
         ELSE AfterCustomer(res.value, cs)
    /\ UNCHANGED <<variant, tokenSet, served, req>>
    /\ UNCHANGED <<nameVars, multiVars>>

\* The booking answers.
CreateBookingReturn ==
    /\ pc = "await_booking"
    /\ \E r \in Outcomes(BookingPayloads) :
         LET cs == Answered(calls, r)
             res == CreateSquareBookingResult(variant, r) IN
         IF res.threw
         THEN Throw("booking", res.message, cs)
         ELSE /\ calls' = cs
              /\ responses' = Append(responses,
                     Envelope(EnvelopeToolCallId(req), SuccessResult(variant, req, res.value)))
              /\ pc' = "done"
              /\ escaped' = escaped
    /\ UNCHANGED <<variant, tokenSet, served, req, customer_id>>
    /\ UNCHANGED <<nameVars, multiVars>>

Next ==
    \/ Receive
    \/ MethodNotAllowed
    \/ RejectInvalid
    \/ BeginSearch
    \/ SearchCustomerReturn
    \/ CreateCustomerReturn
    \/ CreateBookingReturn

Spec == Init /\ [][Next]_vars

\* ---------------------------------------------------------------- vocabulary of the properties
Done == pc = "done"
IsPost == req.method = "POST"

\* The handler has sent one envelope.
OneEnvelope ==
    /\ Len(responses) = 1
    /\ Len(responses[1].results) = 1

TheToolCallId == responses[1].results[1].toolCallId
TheResult == responses[1].results[1].result

SuccessPrefixes ==
    {"Booking success. ID: ", "Great! I've confirmed your appointment. Your booking ID is "}
FailurePrefixes ==
    {"Booking failed. Failure Detail: ",
     "I encountered a system error and could not finalize the booking. Failure Detail: "}

IsSuccessEnvelope == OneEnvelope /\ TheResult[1] \in SuccessPrefixes
IsFailureEnvelope == OneEnvelope /\ TheResult[1] \in FailurePrefixes

CallsOf(api) == { i \in 1..Len(calls) : calls[i].api = api }

\* The call came back with a parsed body and this kind of status.
AnsweredOk(c) == c.resp.outcome = "body" /\ ResponseOk(c.resp.status)
AnsweredNotOk(c) == c.resp.outcome = "body" /\ ~ResponseOk(c.resp.status)

\* The request passes the four conditions of the validation.
PassesValidation ==
    /\ IsPost
    /\ Field(req, "functionName") = FUNCTION_NAME
    /\ Field(req, "customer_name") \notin {Undefined, ""}
    /\ Field(req, "service_name") \notin {Undefined, ""}
    /\ tokenSet

\* ---------------------------------------------------------------- C1
\* C1: every POST request ends with exactly one response, of status 200, whose
\* body is an envelope with exactly one result entry, and no exception leaves
\* the handler, whatever the body and whatever the upstream calls do; before
\* the end no response has been sent.
C1_ExactlyOneEnvelope200 ==
    IsPost =>
        /\ ~escaped
        /\ Done => (OneEnvelope /\ responses[1].status = 200)
        /\ ~Done => responses = <<>>

\* A request whose create call was rejected by fetch.
C1_Witness ==
    /\ Done /\ IsPost /\ Len(calls) = 2
    /\ calls[2].api = "create"
    /\ calls[2].resp.outcome = "fetch_throws"
    /\ OneEnvelope

\* ---------------------------------------------------------------- C2
\* C2: in every envelope the toolCallId of the result entry is the inbound
\* toolCallId when one was supplied and 'test-error' when it is absent, on the
\* rejection, the success and the failure path.
C2_ToolCallIdEchoedOrSentinel ==
    (Done /\ IsPost /\ OneEnvelope) =>
        TheToolCallId = (IF Field(req, "toolCallId") # Undefined
                         THEN Field(req, "toolCallId") ELSE "test-error")

\* ---------------------------------------------------------------- C3
\* C3: a POST request with a wrong functionName, or a missing or empty
\* customer_name or service_name, or handled without a bearer token, makes
\* no upstream call at any point and is answered with status 200 and the fixed
\* configuration-error message.
C3_RejectedWithoutUpstreamCall ==
    (IsPost /\ ( \/ Field(req, "functionName") # "schedule_square_appointment"
                \/ Field(req, "customer_name") \in {Undefined, ""}
                \/ Field(req, "service_name") \in {Undefined, ""}
                \/ ~tokenSet )) =>
        /\ calls = <<>>
        /\ pc \in {"start", "done"}
        /\ Done => /\ OneEnvelope
                   /\ responses[1].status = 200
                   /\ TheResult = CONFIG_ERROR

\* A rejected request whose only fault is its empty service_name.
C3_Witness ==
    /\ Done /\ IsPost /\ tokenSet
    /\ Field(req, "functionName") = FUNCTION_NAME
    /\ Field(req, "customer_name") = "Jane Doe"
    /\ Field(req, "service_name") = ""
    /\ OneEnvelope

\* ---------------------------------------------------------------- C4
\* The search answered a success status and one or more customers.
SearchFoundSome ==
    /\ Len(calls) >= 1
    /\ calls[1].api = "search"
    /\ AnsweredOk(calls[1])
    /\ calls[1].resp.payload.kind = "object"

\* C4: after a search that answered a success status and one or more
\* customers, the request makes no create-customer call and submits the
\* booking with the id of the first customer.
C4_FoundCustomerIsBooked ==
    (PassesValidation /\ SearchFoundSome) =>
        /\ CallsOf("create") = {}
        /\ Len(calls) >= 2
        /\ calls[2].api = "booking"
        /\ calls[2].customer_id = calls[1].resp.payload.id

\* C4 as amended: the same when the first customer of the answer carries an id.
C4_FoundCustomerWithIdIsBooked ==
    (PassesValidation /\ SearchFoundSome /\ Truthy(calls[1].resp.payload.id)) =>
        /\ CallsOf("create") = {}
        /\ Len(calls) >= 2
        /\ calls[2].api = "booking"
        /\ calls[2].customer_id = calls[1].resp.payload.id

\* The customer the search found is being booked.
C4_Witness ==
    /\ PassesValidation /\ SearchFoundSome
    /\ calls[1].resp.payload.id = "CUST_FOUND"
    /\ Len(calls) = 2
    /\ calls[2].api = "booking"
    /\ Done

\* ---------------------------------------------------------------- C5
\* The search answered a success status and no customer.
SearchFoundNone ==
    /\ Len(calls) >= 1
    /\ calls[1].api = "search"
    /\ AnsweredOk(calls[1])
    /\ calls[1].resp.payload.kind \in {"absent", "empty"}

\* One create call, right after the search, and any booking call after it and
\* with the customer id the create answered.
OneCreateBeforeBooking ==
    /\ Cardinality(CallsOf("create")) = 1
    /\ Len(calls) >= 2
    /\ calls[2].api = "create"
    /\ \A i \in CallsOf("booking") :
          /\ i > 2
          /\ calls[2].resp.outcome = "body"
          /\ calls[i].customer_id = calls[2].resp.payload.id

\* C5: after a search that found no customer, the request makes exactly one
\* create-customer call, after the search and before any booking call, and
\* the booking call carries the customer id that create call returned.
C5_NotFoundCreatesOnce ==
    (PassesValidation /\ SearchFoundNone) => OneCreateBeforeBooking

\* C5 as amended: the same for a request whose customer_name is a string.
C5_NotFoundCreatesOnceForStringName ==
    (PassesValidation /\ SearchFoundNone /\ IsString(Field(req, "customer_name")))
        => OneCreateBeforeBooking

\* Search found nobody, the customer was created and then booked.
C5_Witness ==
    /\ PassesValidation /\ SearchFoundNone
    /\ Len(calls) = 3
    /\ calls[2].api = "create"
    /\ calls[3].api = "booking"
    /\ calls[3].customer_id = "CUST_NEW"
    /\ Done

\* ---------------------------------------------------------------- C6
LastCall == calls[Len(calls)]

NoLineBreak(s) == \A i \in 1..Len(s) : ~IsLineBreak(s[i])

\* The result carries the first error detail of the body (line breaks apart)
\* when the body has one, and this fallback otherwise.
DetailOrElse(c, fallback) ==
    IF c.resp.errors.kind = "detail"
    THEN \/ Contains(TheResult, c.resp.errors.detail)
         \/ Contains(TheResult, ReplaceLineBreaks(c.resp.errors.detail))
    ELSE Contains(TheResult, fallback)

\* C6: when the booking call answers a non-success status, the response is a
\* failure envelope whose result contains the provider's first error detail
\* when the body carries one and the generic HTTP-error message with the
\* status otherwise, and the result holds no CR and no LF.
C6_BookingHttpErrorSurfaced ==
    (Done /\ Len(calls) >= 1 /\ LastCall.api = "booking" /\ AnsweredNotOk(LastCall)) =>
        /\ IsFailureEnvelope
        /\ DetailOrElse(LastCall,
              <<"HTTP Error ", StatusText(LastCall.resp.status), " from Square.">>)
           \/ DetailOrElse(LastCall,
              <<"Booking HTTP Error ", StatusText(LastCall.resp.status), " from Square.">>)
        /\ NoLineBreak(TheResult)

\* ---------------------------------------------------------------- C7
\* C7: when the booking call answers a success status and no booking object,
\* the response is a failure envelope, never the success message; its result
\* contains the provider's error detail when the body carries one and the
\* fixed no-booking-object message otherwise, which is not the message of a
\* non-success status without detail.
C7_NoBookingObjectSurfaced ==
    (Done /\ Len(calls) >= 1 /\ LastCall.api = "booking" /\ AnsweredOk(LastCall)
          /\ LastCall.resp.payload.kind = "absent") =>
        /\ IsFailureEnvelope
        /\ DetailOrElse(LastCall, NO_BOOKING_OBJECT)
        /\ \A st \in UpstreamStatuses :
              NO_BOOKING_OBJECT # BookingHttpError(variant, st)

\* ---------------------------------------------------------------- C8
\* C8: a success envelope is sent only when a customer id was obtained and the
\* booking call answered a success status and a booking with an id, and its
\* result contains that id; a booking without an id gives no success message.
C8_SuccessOnlyWithBookingId ==
    (Done /\ IsSuccessEnvelope) =>
        /\ Truthy(customer_id)
        /\ Len(calls) >= 2
        /\ LastCall.api = "booking"
        /\ AnsweredOk(LastCall)
        /\ LastCall.resp.payload.kind = "object"
        /\ Truthy(LastCall.resp.payload.id)
        /\ Contains(TheResult, <<LastCall.resp.payload.id>>)

\* ---------------------------------------------------------------- C9
\* The create call answered a success status and no customer id.
CreateReturnedNoId ==
    /\ Len(calls) >= 2
    /\ calls[2].api = "create"
    /\ AnsweredOk(calls[2])
    /\ ~Truthy(calls[2].resp.payload.id)

\* C9: when the search reports no match and the create call answers a success
\* status without a customer id, the request ends in a failure envelope with
\* the 'Failed to secure customer ID for booking.' detail and makes no booking
\* call.
C9_NoCustomerIdFails ==
    (PassesValidation /\ SearchFoundNone /\ CreateReturnedNoId) =>
        /\ Done
        /\ IsFailureEnvelope
        /\ Contains(TheResult, <<"Failed to secure customer ID for booking.">>)
        /\ CallsOf("booking") = {}

\* The create call answered 200 and a customer object without an id.
C9_Witness ==
    /\ PassesValidation /\ SearchFoundNone /\ CreateReturnedNoId
    /\ calls[2].resp.payload.kind = "object"
    /\ Done

\* ---------------------------------------------------------------- C10
\* C10: a non-success status of the search or of the create call ends the
\* business logic: no further upstream call is made, and the failure envelope
\* contains the provider's first error detail when there is one and the HTTP
\* error message of that call, with the status, otherwise.
C10_CustomerHttpErrorTerminates ==
    \A i \in 1..Len(calls) :
        (calls[i].api \in {"search", "create"} /\ AnsweredNotOk(calls[i])) =>
            /\ i = Len(calls)
            /\ Done
            /\ IsFailureEnvelope
            /\ DetailOrElse(calls[i],
                  IF calls[i].api = "search"
                  THEN <<"Search Customer HTTP Error ", StatusText(calls[i].resp.status),
                         " from Square.">>
                  ELSE <<"Create Customer HTTP Error ", StatusText(calls[i].resp.status),
                         " from Square.">>)

\* ---------------------------------------------------------------- C12
ApiTrace == [i \in 1..Len(calls) |-> calls[i].api]

\* C12: the upstream calls of a request are a prefix of search, then
\* optionally create, then booking, each made at most once; a call is made
\* only when the call before it has been answered, and the booking only with
\* the non-empty customer id the call before it returned.
C12_CallsSequentialOnce ==
    /\ ApiTrace \in { <<>>, <<"search">>, <<"search", "create">>, <<"search", "booking">>,
                      <<"search", "create", "booking">> }
    /\ \A i \in 1..Len(calls) : i < Len(calls) => calls[i].resp.outcome = "body"
    /\ \A i \in CallsOf("booking") :
          /\ Truthy(calls[i].customer_id)
          /\ calls[i].customer_id = calls[i - 1].resp.payload.id
          /\ calls[i].customer_id = customer_id

\* All three calls were made and answered.
C12_Witness ==
    /\ Done
    /\ ApiTrace = <<"search", "create", "booking">>
    /\ calls[3].resp.outcome = "body"

\* ---------------------------------------------------------------- C16
\* C16: in the version that checks the method, a request of another method
\* than POST is answered with status 405, makes no upstream call and gets no
\* result envelope, whatever its body; only POST requests reach validation
\* (only they get an envelope or make a call).
C16_OtherMethodGets405 ==
    (variant = "A" /\ pc # "idle") =>
        /\ req.method # "POST" =>
              /\ calls = <<>>
              /\ pc \in {"start", "done"}
              /\ Done => /\ Len(responses) = 1
                         /\ responses[1].status = 405
                         /\ responses[1].results = <<>>
        /\ (calls # <<>> \/ (Done /\ OneEnvelope)) => req.method = "POST"

\* A GET request with an otherwise valid body was answered.
C16_Witness ==
    /\ variant = "A" /\ Done
    /\ req.method = "GET"
    /\ Field(req, "functionName") = FUNCTION_NAME
    /\ Field(req, "customer_name") = "Jane Doe"
    /\ Field(req, "service_name") = "Haircut"
    /\ Len(responses) = 1

\* ---------------------------------------------------------------- C18
\* C18: a POST request that ends without an upstream call carries the fixed
\* configuration-error message; a request that passes the four conditions of
\* the validation, also one without customer_phone, makes the search call
\* as its first step, before any response.
C18_ValidRequestSearchesFirst ==
    /\ (Done /\ IsPost /\ calls = <<>>) => (OneEnvelope /\ TheResult = CONFIG_ERROR)
    /\ (PassesValidation /\ pc # "start") => (Len(calls) >= 1 /\ calls[1].api = "search")

\* ---------------------------------------------------------------- C13
\* The handler runs every step it can take, and every upstream call it has
\* issued comes back with an answer or an exception.
FairSpec ==
    /\ Spec
    /\ WF_vars(MethodNotAllowed)
    /\ WF_vars(RejectInvalid)
    /\ WF_vars(BeginSearch)
    /\ WF_vars(SearchCustomerReturn)
    /\ WF_vars(CreateCustomerReturn)
    /\ WF_vars(CreateBookingReturn)

\* The state of the request's state machine at a position of the handler.
PhaseAt(p) ==
    CASE p = "idle" -> "Idle"
      [] p = "start" -> "Validating"
      [] p \in {"await_search", "await_create"} -> "ResolvingCustomer"
      [] p = "await_booking" -> "CreatingBooking"
      [] p = "done" -> "Responded"

PhaseSteps ==
    { <<"Idle", "Validating">>, <<"Responded", "Validating">>,
      <<"Validating", "ResolvingCustomer">>, <<"ResolvingCustomer", "CreatingBooking">>,
      <<"Validating", "Responded">>, <<"ResolvingCustomer", "Responded">>,
      <<"CreatingBooking", "Responded">> }

Responded == Done /\ Len(responses) = 1

\* C13: a request goes Validating -> ResolvingCustomer -> CreatingBooking ->
\* Responded, every state may go to Responded directly and the success
\* response is sent from CreatingBooking only; once Responded the request
\* makes no further call and sends no second response; and when every issued
\* call comes back, every request reaches Responded.
C13_StateMachineTerminates ==
    /\ [][ /\ PhaseAt(pc') # PhaseAt(pc) => <<PhaseAt(pc), PhaseAt(pc')>> \in PhaseSteps
           /\ (pc' = "done" /\ pc # "done" /\ IsSuccessEnvelope') => pc = "await_booking"
           /\ (pc = "done" /\ pc' = "done") => UNCHANGED <<calls, responses>>
           /\ (pc = "done" /\ pc' # "done") => (pc' = "start" /\ served' = served + 1) ]_vars
    /\ (pc = "start") ~> Responded

\* A request that went through every state and was answered with success.
C13_Witness ==
    /\ Done
    /\ IsSuccessEnvelope
    /\ ApiTrace = <<"search", "create", "booking">>

\* ---------------------------------------------------------------- createCustomer: the names
\* The longest customer_name tried.
MaxNameLen == 4

NameChars == {"J", "D", " "}

\* The non-empty names, character by character.
Names == UNION { [1..n -> NameChars] : n \in 1..MaxNameLen }

\* s.split(sep)
RECURSIVE SplitOn(_, _)
SplitOn(s, sep) ==
    IF s = <<>> THEN << <<>> >>
    ELSE LET rest == SplitOn(Tail(s), sep) IN
         IF Head(s) = sep
         THEN << <<>> >> \o rest
         ELSE << <<Head(s)>> \o Head(rest) >> \o Tail(rest)

\* parts.join(sep)
RECURSIVE Join(_, _)
Join(parts, sep) ==
    IF parts = <<>> THEN <<>>
    ELSE IF Len(parts) = 1 THEN parts[1]
    ELSE parts[1] \o <<sep>> \o Join(Tail(parts), sep)

CLIENT == <<"Client">>

\* const given_name = parts[0];
GivenName(fullName) == SplitOn(fullName, " ")[1]

\* const family_name = parts.length > 1 ? parts.slice(1).join(' ') : 'Client';
FamilyName(fullName) ==
    LET parts == SplitOn(fullName, " ") IN
    IF Len(parts) > 1 THEN Join(Tail(parts), " ") ELSE CLIENT

NameInit ==
    /\ variant \in {"A", "B", "C"}
    /\ tokenSet = TRUE
    /\ served = 0
    /\ pc = "idle"
    /\ req = NoRequest
    /\ customer_id = Undefined
    /\ calls = <<>>
    /\ responses = <<>>
    /\ escaped = FALSE
    /\ fullNameArg \in Names
    /\ submitted = <<>>
    /\ NoOverlap

\* createCustomer builds the names of its request body.
CreateCustomerNames ==
    /\ submitted = <<>>
    /\ submitted' = << [ given_name |-> GivenName(fullNameArg),
                         family_name |-> FamilyName(fullNameArg) ] >>
    /\ UNCHANGED <<variant, tokenSet, served, pc, req, customer_id, calls, responses,
                   escaped, fullNameArg, multiVars>>

NameNext == CreateCustomerNames

NameSpec == NameInit /\ [][NameNext]_vars

\* ---------------------------------------------------------------- C14
IsNoSpace(c) == c # " "

\* The whitespace-separated tokens of s.
RECURSIVE Words(_)
Words(s) ==
    IF s = <<>> THEN <<>>
    ELSE IF Head(s) = " " THEN Words(Tail(s))
    ELSE LET n == IF \E i \in 1..Len(s) : s[i] = " "
                  THEN (CHOOSE i \in 1..Len(s) :
                           s[i] = " " /\ \A j \in 1..(i - 1) : s[j] # " ") - 1
                  ELSE Len(s) IN
         << SubSeq(s, 1, n) >> \o Words(SubSeq(s, n + 1, Len(s)))

\* C14: for every non-empty customer_name, given_name is the first
\* whitespace-separated token and family_name the other tokens joined by
\* single spaces, or 'Client' when there is one token only, also with
\* leading, trailing or repeated spaces; neither of them is empty.
C14_NamesAreTokens ==
    submitted # <<>> =>
        LET w == Words(fullNameArg) IN
        /\ submitted[1].given_name # <<>>
        /\ submitted[1].family_name # <<>>
        /\ w # <<>>
        /\ submitted[1].given_name = w[1]
        /\ submitted[1].family_name = (IF Len(w) = 1 THEN <<"Client">> ELSE Join(Tail(w), " "))

\* ---------------------------------------------------------------- overlapping requests
\* The invocations of the handler that run in one process.
Handlers == {1, 2}

\* The largest value Date.now() returns.
MaxClock == 1

\* Math.random().toString(36).substring(2, 8)
Randoms == {"r1", "r2"}

\* The phone numbers of the requests: the second has a space, parentheses and a
\* dash, and cleaned of them it is the first.
MultiPhones ==
    { <<"+", "1", "5", "5">>, <<"+", "1", " ", "(", "5", ")", "-", "5">> }

TOOL_CALL_IDS == <<"call-1", "call-2">>

\* The valid request that invocation h handles for this phone number.
MultiRequest(h, phone) ==
    [ method |-> "POST", hasBody |-> TRUE, hasArgs |-> TRUE,
      functionName |-> FUNCTION_NAME, toolCallId |-> TOOL_CALL_IDS[h],
      customer_name |-> "Jane Doe",
      customer_phone |-> [kind |-> "string", chars |-> phone],
      start_time |-> "2025-01-01T10:00:00Z", service_name |-> "Haircut" ]

\* An invocation: its position, its request, its local customer_id, its
\* calls with the idempotency keys it generated and its responses; arrival
\* numbers the requests as they come in, after holds the invocations that had
\* responded when this one started.
IdleHandler ==
    [ pc |-> "idle", req |-> NoRequest, arrival |-> 0, after |-> {},
      customer_id |-> Undefined, calls |-> <<>>, keys |-> <<>>, responses |-> <<>>,
      escaped |-> FALSE ]

\* `vapi-customer-${Date.now()}-${Math.random().toString(36).substring(2, 8)}`
IdempotencyKey(prefix, t, rnd) == <<prefix, t, "-", rnd>>

CustomerKey(t, rnd) == [api |-> "create", key |-> IdempotencyKey("vapi-customer-", t, rnd)]
BookingKey(t, rnd) == [api |-> "booking", key |-> IdempotencyKey("vapi-booking-", t, rnd)]

\* The values Date.now() can return after it returned n.
ClockReads(n) == { t \in 0..MaxClock : t >= n }

\* All invocations reading the bindings of the request that arrived last, as
\* they would with functionName, args, toolCallId declared at module level.
Locals_ModuleLevel(ps, h) ==
    ps[CHOOSE g \in Handlers : \A k \in Handlers : ps[g].arrival >= ps[k].arrival]

\* The bindings invocation h reads: const and let inside the handler are its own.
Locals(ps, h) == ps[h]

\* ---- the provider: it stores the phone number of a created customer as
\* ---- submitted and searches by exact equality
CUSTOMER_IDS == <<"CUST_1", "CUST_2">>
BOOKING_IDS == <<"BOOK_1", "BOOK_2">>
SLOT_ERRORS == << <<"slot", "1", "taken">>, <<"slot", "2", "taken">> >>

Matches(st, filter) == { i \in 1..Len(st) : st[i].phone = filter }

ProviderSearch(st, filter) ==
    [ outcome |-> "body", status |-> 200, errors |-> NoErrors,
      payload |-> IF Matches(st, filter) = {}
                  THEN [kind |-> "empty", id |-> Undefined]
                  ELSE [kind |-> "object",
                        id |-> st[CHOOSE i \in Matches(st, filter) :
                                     \A j \in Matches(st, filter) : i <= j].id] ]

ProviderCreate(st, phone) == [id |-> CUSTOMER_IDS[Len(st) + 1], phone |-> phone]

ProviderCreated(c) ==
    [ outcome |-> "body", status |-> 200, errors |-> NoErrors,
      payload |-> [kind |-> "object", id |-> c.id] ]

ProviderBooking(n, ok) ==
    IF ok
    THEN [ outcome |-> "body", status |-> 200, errors |-> NoErrors,
           payload |-> [kind |-> "object", id |-> BOOKING_IDS[n]] ]
    ELSE [ outcome |-> "body", status |-> 400,
           errors |-> [kind |-> "detail", detail |-> SLOT_ERRORS[n]],
           payload |-> NoPayload ]

\* ---- the handler, as the new state of invocation h
\* catch (error): the failure envelope
HThrow(ps, h, step, message, cs) ==
    [ ps[h] EXCEPT
        !.pc = "done",
        !.calls = cs,
        !.responses = IF InTryBlock(step)
                      THEN Append(@, Envelope(EnvelopeToolCallId(Locals(ps, h).req),
                                              FailureResult(variant, message)))
                      ELSE @,
        !.escaped = ~InTryBlock(step) ]

\* await createSquareBooking(customer_id, start_time, TOKEN): up to the fetch
HBookingCall(ps, h, id, cs, t, rnd) ==
    [ ps[h] EXCEPT
        !.pc = "await_booking",
        !.customer_id = id,
        !.calls = Append(cs, Call("booking", <<>>, Undefined, id)),
        !.keys = Append(@, BookingKey(t, rnd)) ]

HAfterCustomer(ps, h, id, cs, t, rnd) ==
    IF NoCustomerId(id)
    THEN [HThrow(ps, h, "customer", NO_CUSTOMER_ID, cs) EXCEPT !.customer_id = id]
    ELSE HBookingCall(ps, h, id, cs, t, rnd)

\* await createCustomer(customer_name, customer_phone, TOKEN): up to the fetch
HCreateCall(ps, h, id, cs, t, rnd) ==
    LET r == Locals(ps, h).req
        pre == CreateBeforeFetch(Field(r, "customer_name")) IN
    IF pre.threw
    THEN [HThrow(ps, h, "create", pre.message, cs) EXCEPT !.customer_id = id]
    ELSE [ ps[h] EXCEPT
             !.pc = "await_create",
             !.customer_id = id,
             !.calls = Append(cs, Call("create", PhoneOf(r).chars,
                                       Field(r, "customer_name"), Undefined)),
             !.keys = Append(@, CustomerKey(t, rnd)) ]

\* The handler from its start to its first await.
HStart(ps, h) ==
    LET r == Locals(ps, h).req
        pre == SearchBeforeFetch(variant, PhoneOf(r)) IN
    IF Rejected(r, tokenSet)
    THEN [ ps[h] EXCEPT !.pc = "done",
             !.responses = Append(@, Envelope(RejectionToolCallId(r), CONFIG_ERROR)) ]
    ELSE IF pre.threw
    THEN HThrow(ps, h, "search", pre.message, ps[h].calls)
    ELSE [ ps[h] EXCEPT !.pc = "await_search",
             !.calls = Append(@, Call("search", SearchFilter(variant, PhoneOf(r)),
                                      Undefined, Undefined)) ]

\* Date.now() has returned t when the step generated a key.
ClockAfter(old, new, t) == IF Len(new.keys) > Len(old.keys) THEN t ELSE now

MultiInit ==
    /\ variant \in {"A", "B", "C"}
    /\ tokenSet = TRUE
    /\ served = 0
    /\ pc = "idle"
    /\ req = NoRequest
    /\ customer_id = Undefined
    /\ calls = <<>>
    /\ responses = <<>>
    /\ escaped = FALSE
    /\ fullNameArg = <<>>
    /\ submitted = <<>>
    /\ procs = [h \in Handlers |-> IdleHandler]
    /\ store = <<>>
    /\ booked = 0
    /\ now = 0

singleVars == <<variant, tokenSet, served, pc, req, customer_id, calls, responses, escaped>>

\* A request arrives and its invocation runs to its first await.
MultiReceive(h) ==
    /\ procs[h].pc = "idle"
    /\ \E phone \in MultiPhones :
         LET arrived == [ procs EXCEPT
                 ![h].req = MultiRequest(h, phone),
                 ![h].arrival = Cardinality({g \in Handlers : procs[g].pc # "idle"}) + 1,
                 ![h].after = {g \in Handlers : procs[g].pc = "done"} ] IN
         procs' = [arrived EXCEPT ![h] = HStart(arrived, h)]
    /\ UNCHANGED <<singleVars, nameVars, store, booked, now>>

\* The provider answers the search of invocation h, which runs on.
MultiSearchReturn(h) ==
    /\ procs[h].pc = "await_search"
    /\ \E t \in ClockReads(now), rnd \in Randoms :
         LET self == procs[h]
             r == ProviderSearch(store, self.calls[Len(self.calls)].filter)
             cs == Answered(self.calls, r)
             res == SearchCustomerResult(variant, r)
             new == IF res.threw THEN HThrow(procs, h, "search", res.message, cs)
                    ELSE IF NeedsCreate(res.value)
                         THEN HCreateCall(procs, h, res.value, cs, t, rnd)
                         ELSE HAfterCustomer(procs, h, res.value, cs, t, rnd) IN
         /\ procs' = [procs EXCEPT ![h] = new]
         /\ now' = ClockAfter(self, new, t)
    /\ UNCHANGED <<singleVars, nameVars, store, booked>>

\* The provider stores the customer of invocation h and answers, and h runs on.
MultiCreateReturn(h) ==
    /\ procs[h].pc = "await_create"
    /\ \E t \in ClockReads(now), rnd \in Randoms :
         LET self == procs[h]
             c == ProviderCreate(store, self.calls[Len(self.calls)].filter)
             r == ProviderCreated(c)
             cs == Answered(self.calls, r)
             res == CreateCustomerResult(variant, r)
             new == IF res.threw THEN HThrow(procs, h, "create", res.message, cs)
                    ELSE HAfterCustomer(procs, h, res.value, cs, t, rnd) IN
         /\ store' = Append(store, c)
         /\ procs' = [procs EXCEPT ![h] = new]
         /\ now' = ClockAfter(self, new, t)
    /\ UNCHANGED <<singleVars, nameVars, booked>>

\* The provider answers the booking of invocation h, which responds.
MultiBookingReturn(h) ==
    /\ procs[h].pc = "await_booking"
    /\ \E ok \in BOOLEAN :
         LET self == procs[h]
             r == ProviderBooking(booked + 1, ok)
             cs == Answered(self.calls, r)
             res == CreateSquareBookingResult(variant, r)
             new == IF res.threw THEN HThrow(procs, h, "booking", res.message, cs)
                    ELSE [ self EXCEPT
                             !.pc = "done",
                             !.calls = cs,
                             !.responses = Append(@,
                                 Envelope(EnvelopeToolCallId(Locals(procs, h).req),
                                          SuccessResult(variant, Locals(procs, h).req,
                                                        res.value))) ] IN
         procs' = [procs EXCEPT ![h] = new]
    /\ booked' = booked + 1
    /\ UNCHANGED <<singleVars, nameVars, store, now>>

MultiNext ==
    \E h \in Handlers :
        \/ MultiReceive(h)
        \/ MultiSearchReturn(h)
        \/ MultiCreateReturn(h)
        \/ MultiBookingReturn(h)

MultiSpec == MultiInit /\ [][MultiNext]_vars

\* ---------------------------------------------------------------- properties of overlapping requests
Started(h) == procs[h].pc # "idle"
Finished(h) == procs[h].pc = "done"

\* g had responded when h arrived.
Sequential(g, h) == g \in procs[h].after

\* g and h were in flight together.
Overlapping(g, h) ==
    /\ g # h
    /\ Started(g) /\ Started(h)
    /\ ~Sequential(g, h) /\ ~Sequential(h, g)

SamePhone(g, h) == PhoneOf(procs[g].req) = PhoneOf(procs[h].req)

HCallsOf(h, api) == { i \in 1..Len(procs[h].calls) : procs[h].calls[i].api = api }

KeysOf(h, api) == { k \in { procs[h].keys[i] : i \in 1..Len(procs[h].keys) } : k.api = api }

TheEnvelope(h) == procs[h].responses[1].results[1]

\* C11: the idempotency keys of two sequential requests of one process are
\* never equal: neither the keys of their create-customer calls nor the keys
\* of their create-booking calls.
C11_SequentialKeysDiffer ==
    \A g \in Handlers, h \in Handlers :
        Sequential(g, h) =>
            \A api \in {"create", "booking"} :
                \A k \in KeysOf(g, api), l \in KeysOf(h, api) : k.key # l.key

\* C15: the envelope of a request carries the toolCallId of its own payload
\* and the booking id, or the error detail, the provider returned to its own
\* create-booking call, and no id or detail returned to another request.
C15_EnvelopeFromOwnRequest ==
    \A h \in Handlers :
        (Finished(h) /\ procs[h].responses # <<>>) =>
            /\ Len(procs[h].responses) = 1
            /\ TheEnvelope(h).toolCallId = TOOL_CALL_IDS[h]
            /\ \A i \in HCallsOf(h, "booking") :
                 LET c == procs[h].calls[i] IN
                 /\ AnsweredOk(c) =>
                      TheEnvelope(h).result
                          = SuccessResult(variant, MultiRequest(h, PhoneOf(procs[h].req).chars),
                                          c.resp.payload.id)
                 /\ AnsweredNotOk(c) =>
                      Contains(TheEnvelope(h).result, c.resp.errors.detail)
            /\ \A n \in 1..Len(BOOKING_IDS) :
                 (\/ Contains(TheEnvelope(h).result, <<BOOKING_IDS[n]>>)
                  \/ Contains(TheEnvelope(h).result, SLOT_ERRORS[n]))
                 => \E i \in HCallsOf(h, "booking") :
                        procs[h].calls[i].resp = ProviderBooking(n, TRUE)
                        \/ procs[h].calls[i].resp = ProviderBooking(n, FALSE)

\* Two requests in flight together have both responded, the one that arrived
\* first after the other, one with a booking id and one with an error detail.
C15_Witness ==
    /\ Overlapping(1, 2)
    /\ Finished(1) /\ Finished(2)
    /\ procs[1].arrival = 1
    /\ booked = 2
    /\ procs[1].calls[Len(procs[1].calls)].resp = ProviderBooking(2, TRUE)
    /\ procs[2].calls[Len(procs[2].calls)].resp = ProviderBooking(1, FALSE)
    /\ Contains(TheEnvelope(1).result, <<BOOKING_IDS[2]>>)
    /\ Contains(TheEnvelope(2).result, SLOT_ERRORS[1])

\* C17: after a request has created a customer for a phone number, a later
\* request with the same customer_phone finds the customer and issues no
\* create-customer call, whatever characters the phone number has.
C17_LaterRequestFindsCustomer ==
    \A g \in Handlers, h \in Handlers :
        ( /\ Sequential(g, h)
          /\ SamePhone(g, h)
          /\ \E i \in HCallsOf(g, "create") : AnsweredOk(procs[g].calls[i]) )
        => HCallsOf(h, "create") = {}

\* C19: two overlapping requests for one phone number that the provider does
\* not hold issue at most one create-customer call between them.
C19_OneCreateAcrossOverlapping ==
    \A g \in Handlers, h \in Handlers :
        (Overlapping(g, h) /\ SamePhone(g, h)) =>
            Cardinality(HCallsOf(g, "create")) + Cardinality(HCallsOf(h, "create")) <= 1

\* C19, as the code has it: each of two overlapping requests for one phone
\* number issues at most one create-customer call, right after its own search
\* was answered with no customer, so the two issue at most two between them.
C19_OneCreatePerRequest ==
    \A g \in Handlers, h \in Handlers :
        (Overlapping(g, h) /\ SamePhone(g, h)) =>
            /\ Cardinality(HCallsOf(h, "create")) <= 1
            /\ \A i \in HCallsOf(h, "create") :
                 /\ i = 2
                 /\ procs[h].calls[1].api = "search"
                 /\ AnsweredOk(procs[h].calls[1])
                 /\ procs[h].calls[1].resp.payload.kind = "empty"

\* Both requests searched before either customer was stored, and both created.
C19_Witness ==
    /\ Overlapping(1, 2) /\ SamePhone(1, 2)
    /\ HCallsOf(1, "create") # {} /\ HCallsOf(2, "create") # {}
    /\ Len(store) = 2
    /\ store[1].phone = store[2].phone

====
